---- MODULE Spec2Model ----
(***************************************************************************)
(* Model of streamlit.py, the insurance claim audit application.           *)
(*                                                                         *)
(* Spec       the chat: the session state (messages, selected_claim), one  *)
(*            action per kind of script pass (a widget event, the rerun    *)
(*            that process_user_input asks for, a claim change).           *)
(* SpecData   the cached warehouse reads get_claim_numbers and             *)
(*            get_claim_details over a warehouse that changes.             *)
(* SpecImage  the "Generate Image Summary & Similarity" button.            *)
(*                                                                         *)
(* Python values: a str is a sequence of chunks (strings); "" is <<>>.     *)
(* An Optional value is <<>> (None) or <<v>>.  A claim number is a         *)
(* sequence of one-character strings, so that the SQL text the code        *)
(* builds from it can be read back character by character.                 *)
(***************************************************************************)
EXTENDS Integers, Sequences, FiniteSets, TLC

VARIABLES
    messages,         \* st.session_state.messages
    selected_claim,   \* st.session_state.selected_claim
    ui,               \* how the last pass ended: "rendered" | "exception"
    rerun_pending,    \* st.rerun() was called: the script runs again at once
    analyst_call,     \* the get_analyst_response call of the last pass, if any
    event,            \* what started the last pass
    appended_under,   \* per transcript entry: the claim selected at its append
    claims_table,     \* rows of INS_CO.LOSS_CLAIMS.CLAIMS
    cache_numbers,    \* st.cache_data entry of get_claim_numbers
    cache_details,    \* st.cache_data entries of get_claim_details, by argument
    listed,           \* what the last get_claim_numbers call returned
    detail_call,      \* the last get_claim_details call: argument and result
    image_tab         \* what the last image-tab pass computed and displayed

chatVars ==
    <<messages, selected_claim, ui, rerun_pending, analyst_call, event,
      appended_under>>
dataVars == <<claims_table, cache_numbers, cache_details, listed, detail_call>>
imageVars == <<image_tab>>
vars == <<chatVars, dataVars, imageVars>>

----------------------------------------------------------------------------
(* Bounds and inputs *)

\* The longest transcript a submission may start from is MaxTranscript - 2.
MaxTranscript == 4
\* The claims table holds at most MaxRows rows.
MaxRows == 2
\* Similarity scores are the values k / ScoreScale, k in 0..ScoreScale.
ScoreScale == 20

None == <<>>
Some(v) == <<v>>

\* Python truthiness of a str (or of an Optional[str]): None and "" are false.
StrTruthy(s) == s # <<>>
OptStrTruthy(o) == o # None /\ o[1] # <<>>

Last(s) == s[Len(s)]
IsPrefix(s, t) == Len(s) <= Len(t) /\ SubSeq(t, 1, Len(s)) = s

\* CLAIM_NO values the warehouse may hold: two plain ones and one with an
\* apostrophe.
ClaimNoUniverse == { <<"A">>, <<"B">>, <<"A", "'">> }

\* LOSS_DESCRIPTION values of a row: the empty string, a text.
LossDescriptions == { Some(<<>>), Some(<<"water damage">>) }

Rows == [CLAIM_NO : ClaimNoUniverse, LOSS_DESCRIPTION : LossDescriptions]

\* The tables of at most MaxRows rows.
Tables == { t \in SUBSET Rows : Cardinality(t) <= MaxRows }

\* A result set of the rows in S, in any order the warehouse returns them.
Orderings(S) ==
    { o \in [1..Cardinality(S) -> S] :
        \A i, j \in 1..Cardinality(S) : o[i] = o[j] => i = j }

----------------------------------------------------------------------------
(* Data retrieval functions *)

\* Python's order of str, character by character: "'" sorts before letters.
CharRank(c) == CASE c = "'" -> 39 [] c = "A" -> 65 [] c = "B" -> 66

RECURSIVE StrLess(_, _)
StrLess(a, b) ==
    IF b = <<>> THEN FALSE
    ELSE IF a = <<>> THEN TRUE
    ELSE IF a[1] # b[1] THEN CharRank(a[1]) < CharRank(b[1])
    ELSE StrLess(Tail(a), Tail(b))

\* sorted(list): the elements of S in ascending order.
Sorted(S) ==
    CHOOSE s \in Orderings(S) :
        \A i \in 1..(Cardinality(S) - 1) : StrLess(s[i], s[i + 1])

\* One warehouse read: it raised, or it returned rows.
Raised == [raised |-> TRUE, rows |-> <<>>]
Returned(rows) == [raised |-> FALSE, rows |-> rows]

\* session.table(CLAIMS).select("CLAIM_NO").distinct(): the read fails, or
\* returns each CLAIM_NO of the table once.
ListingReads(table) ==
    {Raised} \cup { Returned(o) : o \in Orderings({ r.CLAIM_NO : r \in table }) }

\* get_claim_numbers, uncached: the sorted numbers, [] when the read raised.
get_claim_numbers(read) ==
    IF read.raised THEN <<>>
    ELSE Sorted({ read.rows[i] : i \in 1..Len(read.rows) })

\* The warehouse reading the string literal of the filter text
\* CLAIM_NO = '{claim_number}': s is the text after the opening quote, acc the
\* characters read.  '' inside a literal is one apostrophe; a lone ' ends the
\* literal; text after the end, or no end, is a compilation error.
RECURSIVE ReadLiteral(_, _)
ReadLiteral(s, acc) ==
    IF s = <<>> THEN [ok |-> FALSE, value |-> <<>>]
    ELSE IF s[1] # "'" THEN ReadLiteral(Tail(s), Append(acc, s[1]))
    ELSE IF Len(s) >= 2 /\ s[2] = "'"
         THEN ReadLiteral(Tail(Tail(s)), Append(acc, "'"))
    ELSE IF Len(s) = 1 THEN [ok |-> TRUE, value |-> acc]
    ELSE [ok |-> FALSE, value |-> <<>>]

\* f"CLAIM_NO = '{claim_number}'": the argument is pasted between two quotes.
FilterLiteral(claim_number) == ReadLiteral(claim_number \o <<"'">>, <<>>)

\* session.table(CLAIMS).filter(...).to_pandas(): the read fails (always when
\* the filter text does not compile), or returns the matching rows.
ClaimsReads(table, claim_number) ==
    LET lit == FilterLiteral(claim_number) IN
    {Raised} \cup
    IF lit.ok
    THEN { Returned(o) : o \in Orderings({ r \in table : r.CLAIM_NO = lit.value }) }
    ELSE {}

\* session.table(NOTES).filter(...).to_pandas(): fails, or returns the notes.
NotesReads(notes, claim_number) ==
    LET lit == FilterLiteral(claim_number) IN
    {Raised} \cup
    IF lit.ok
    THEN { Returned(IF lit.value \in notes THEN <<"note">> ELSE <<>>) }
    ELSE {}

ErrorFetching == << <<"Error fetching details.">> >>
NoMainClaim == << <<"No main claim details found.">> >>

\* details_text: one entry per line, a label and what is formatted after it.
\* (LINE_OF_BUSINESS, CLAIM_STATUS and CAUSE_OF_LOSS are left out.)
DetailsText(claim_info, notes_rows) ==
    << <<"**Claim Number:** ", claim_info.CLAIM_NO>>,
       <<"**Loss Description:** ", claim_info.LOSS_DESCRIPTION>> >>
    \o (IF notes_rows # <<>>
        THEN << <<"**Claim Notes:**">> >>
             \o [i \in 1..Len(notes_rows) |-> <<"- Content: ", notes_rows[i]>>]
        ELSE << <<"No parsed claim notes found.">> >>)

NumAuditQuestions == 6

\* The audit questions, each f"For claim {claim_number}, ...".
audit_questions(claim_number) ==
    [i \in 1..NumAuditQuestions |->
        <<"For claim ">> \o claim_number \o
        << CASE i = 1 -> ", was a payment issued 3-5 days after the invoice?"
             [] i = 2 -> ", was a payment issued 8-13 days after the invoice?"
             [] i = 3 -> ", was a payment issued 14-29 days after the invoice?"
             [] i = 4 -> ", was a payment issued 30+ days after the invoice?"
             [] i = 5 -> ", did the total payment exceed the total reserve?"
             [] i = 6 -> ", was a payment made in excess of the performer authority?" >>]

\* get_claim_details, uncached, given what its two reads did.  details is
\* one dict, updated in place as the function goes and returned by the
\* except branch as it then stands.
get_claim_details(claim_number, claims_read, notes_read) ==
    LET details == [claim_details |-> ErrorFetching,
                    audit_questions |-> <<>>,
                    loss_description |-> None]
    IN
    IF claims_read.raised THEN details
    ELSE IF claims_read.rows = <<>>
    THEN [details EXCEPT !.claim_details = NoMainClaim]
    ELSE
        LET claim_info == claims_read.rows[1]
            details1 == [details EXCEPT
                            !.loss_description = claim_info.LOSS_DESCRIPTION]
        IN
        IF notes_read.raised THEN details1
        ELSE [details1 EXCEPT
                !.claim_details = DetailsText(claim_info, notes_read.rows),
                !.audit_questions = audit_questions(claim_number)]

\* Every result an uncached get_claim_details(claim_number) can return over
\* the given tables.
ClaimDetailsResults(table, notes, claim_number) ==
    { get_claim_details(claim_number, cr, nr) :
        cr \in ClaimsReads(table, claim_number),
        nr \in NotesReads(notes, claim_number) }

\* The claim number a details record shows, if it shows one.
RecordClaimNo(details) ==
    IF details.claim_details[1][1] = "**Claim Number:** "
    THEN Some(details.claim_details[1][2])
    ELSE None

----------------------------------------------------------------------------
(* The Cortex Analyst service, as seen by get_analyst_response *)

\* A chat message and its content blocks, with the keys of the Python dicts.
TextBlock(text) == [type |-> "text", text |-> text]
SuggestionsBlock(suggestions) == [type |-> "suggestions", suggestions |-> suggestions]
SqlBlock(statement) == [type |-> "sql", statement |-> statement]
Message(role, content) == [role |-> role, content |-> content]

\* Reply content lists of the service: empty, text only, text with
\* suggestions (one of them the empty string) and a SQL statement.
ReplyContents ==
    { <<>>,
      << TextBlock(<<"This is our interpretation of your question.">>) >>,
      << TextBlock(<<"Here is the query.">>),
         SuggestionsBlock(<< <<"Which payments were late?">>, <<>> >>),
         SqlBlock(<<"SELECT 1">>) >> }

\* What json.loads(resp["content"]) finds.  j is the JSON value's kind; for
\* an object, message is what its "message" key holds and content, for a
\* message object with a "content" key, that key's value.
Body(j, message, content) == [j |-> j, message |-> message, content |-> content]
Bodies ==
    { Body(j, "absent", <<>>) : j \in {"invalid", "null", "number", "list"} }
    \cup { Body("object", m, <<>>) :
             m \in {"absent", "null", "string", "string_with_content", "object"} }
    \cup { Body("object", "object_with_content", c) : c \in ReplyContents }

\* HTTP statuses the service answers with.
Statuses == {200, 399, 400, 504}
StatusStr(status) ==
    CASE status = 200 -> "200" [] status = 399 -> "399"
      [] status = 400 -> "400" [] status = 504 -> "504"

\* One send_snow_api_request call: it raises (no connection, the timeout),
\* or returns a status and a body.
NoResponse == [kind |-> "none", status |-> 0, content |-> Body("null", "absent", <<>>)]
Responses ==
    { [kind |-> "raises", status |-> 0, content |-> Body("null", "absent", <<>>)] }
    \cup { [kind |-> "returns", status |-> st, content |-> b] :
             st \in Statuses, b \in Bodies }

\* Python's None as a parsed value: what json.loads gives for null.
PyNone == Body("null", "absent", <<>>)

\* bool(parsed): None is false; a number, a list and a dict here are not
\* empty.
BodyTruthy(parsed) == parsed.j # "null"

\* parsed.get('message', 'Unknown error') as formatted into the f-string.
GetMessageText(parsed) ==
    CASE parsed.message = "absent" -> "Unknown error"
      [] parsed.message = "null" -> "None"
      [] parsed.message = "string" -> "<message>"
      [] parsed.message = "string_with_content" -> "<message with content>"
      [] OTHER -> "<dict>"

\* Line 154 with <= for <.
StatusOk_le400(status) == status <= 400

\* Line 154: resp["status"] < 400.
StatusOk(status) == status < 400

UnexpectedError ==
    <<"An unexpected ", "error", " occurred during the API call: ", "<exception>">>
ApiError(status, parsed) ==
    <<"API ", "Error", " (Code: ", StatusStr(status), "): ", GetMessageText(parsed)>>

\* The request body; the semantic model path is the one configured.
request_body(msgs) ==
    [messages |-> msgs,
     semantic_model_file |-> "@INS_CO.LOSS_CLAIMS.LOSS_EVIDENCE/loss_claims.yaml"]

\* get_analyst_response: (response, error_msg) for what the service did.
\* Anything raised inside the try block (by the request, by json.loads on a
\* body that is no JSON, by .get on a parsed value that is no dict) yields
\* (None, "An unexpected error ...").
get_analyst_response(msgs, resp) ==
    LET unexpected == [response |-> PyNone, error_msg |-> Some(UnexpectedError)]
        parsed == resp.content
    IN
    IF resp.kind = "raises" THEN unexpected
    ELSE IF parsed.j = "invalid" THEN unexpected
    ELSE IF StatusOk(resp.status) THEN [response |-> parsed, error_msg |-> None]
    ELSE IF parsed.j # "object" THEN unexpected
    ELSE [response |-> parsed,
          error_msg |-> Some(ApiError(resp.status, parsed))]

----------------------------------------------------------------------------
(* Chat logic *)

\* process_user_input without the test of line 181.
process_user_input_no_guard(msgs, prompt) ==
    [messages |-> Append(msgs, Message("user",
                     << TextBlock(IF prompt = None THEN <<>> ELSE prompt[1]) >>)),
     rerun |-> TRUE]

\* process_user_input assigning a new list instead of appending.
process_user_input_replace(msgs, prompt) ==
    IF ~OptStrTruthy(prompt) THEN [messages |-> msgs, rerun |-> FALSE]
    ELSE [messages |-> << Message("user", << TextBlock(prompt[1]) >>) >>,
          rerun |-> TRUE]

\* process_user_input: nothing for a prompt that is None or empty; otherwise
\* the user message is appended and st.rerun() is called.
process_user_input(msgs, prompt) ==
    IF ~OptStrTruthy(prompt) THEN [messages |-> msgs, rerun |-> FALSE]
    ELSE [messages |-> Append(msgs, Message("user", << TextBlock(prompt[1]) >>)),
          rerun |-> TRUE]

\* Line 190: the analyst message for an error.
error_message(error_msg) ==
    Message("analyst", << TextBlock(<<"<rotating light> ">> \o error_msg) >>)

\* Line 191, for a response that is true and no error: evaluating
\* "message" in response and "content" in response["message"] gives
\* "true", "false", or raises TypeError (a number has no "in"; neither has a
\* message that is null).  A message string is searched for the substring
\* "content".
HasMessageContent(response) ==
    CASE response.j = "number" -> "raises"
      [] response.j = "list" -> "false"
      [] response.message = "absent" -> "false"
      [] response.message = "null" -> "raises"
      [] response.message = "string" -> "false"
      [] response.message = "string_with_content" -> "true"
      [] response.message = "object" -> "false"
      [] response.message = "object_with_content" -> "true"

\* get_and_process_analyst_response with the test of the response before
\* the test of error_msg: a reply that comes with an error status is shown.
get_and_process_analyst_response_reply_first(msgs, resp) ==
    LET r == get_analyst_response(msgs, resp)
        response == r.response
        empty == Message("analyst",
                    << TextBlock(<<"Sorry, I received an empty response.">>) >>)
        done(m) == [raised |-> FALSE, messages |-> Append(msgs, m)]
        raise == [raised |-> TRUE, messages |-> msgs]
    IN
    IF BodyTruthy(response) /\ HasMessageContent(response) = "raises" THEN raise
    ELSE IF /\ BodyTruthy(response)
            /\ HasMessageContent(response) = "true"
            /\ response.message = "object_with_content"
         THEN done(Message("analyst", response.content))
    ELSE IF OptStrTruthy(r.error_msg) THEN done(error_message(r.error_msg[1]))
    ELSE done(empty)

\* get_and_process_analyst_response: the transcript with the analyst message
\* appended, or an exception that leaves the transcript as it was: TypeError
\* from line 191, or from line 192 indexing a message string with "content".
get_and_process_analyst_response(msgs, resp) ==
    LET r == get_analyst_response(msgs, resp)
        response == r.response
        empty == Message("analyst",
                    << TextBlock(<<"Sorry, I received an empty response.">>) >>)
        done(m) == [raised |-> FALSE, messages |-> Append(msgs, m)]
        raise == [raised |-> TRUE, messages |-> msgs]
    IN
    IF OptStrTruthy(r.error_msg) THEN done(error_message(r.error_msg[1]))
    ELSE IF ~BodyTruthy(response) THEN done(empty)
    ELSE IF HasMessageContent(response) = "raises" THEN raise
    ELSE IF HasMessageContent(response) = "false" THEN done(empty)
    ELSE IF response.message = "string_with_content" THEN raise
    ELSE done(Message("analyst", response.content))

\* on_claim_change leaving the list as it is.
on_claim_change_keep(msgs) == msgs

\* on_claim_change: st.session_state.messages = [].
on_claim_change(msgs) == <<>>

----------------------------------------------------------------------------
(* The script: one pass per action *)

NoCall ==
    [called |-> FALSE, request |-> request_body(<<>>), resp |-> NoResponse,
     result |-> [response |-> PyNone, error_msg |-> None]]

Awaiting(msgs) == msgs # <<>> /\ Last(msgs).role = "user"

\* Step 3: if the last message is the user's, get the analyst response.
Step3(msgs, resp) ==
    IF Awaiting(msgs)
    THEN LET g == get_and_process_analyst_response(msgs, resp) IN
         [raised |-> g.raised, messages |-> g.messages,
          call |-> [called |-> TRUE, request |-> request_body(msgs),
                    resp |-> resp, result |-> get_analyst_response(msgs, resp)]]
    ELSE [raised |-> FALSE, messages |-> msgs, call |-> NoCall]

\* The service's possible answers in a pass that calls it.
Answers(msgs) == IF Awaiting(msgs) THEN Responses ELSE {NoResponse}

\* What get_claim_details(claim) can return to the script, over every
\* warehouse content and read outcome; cached results are among them.
DetailsResults[claim \in ClaimNoUniverse] ==
    UNION { ClaimDetailsResults(t, n, claim) :
              t \in Tables, n \in SUBSET ClaimNoUniverse }

\* The audit question lists the picker can be given.
QuestionLists[claim \in ClaimNoUniverse] ==
    { d.audit_questions : d \in DetailsResults[claim] }

\* st.session_state.selected_question_text: None for a picker without
\* options, else the option picked.
SelectedQuestionTexts(options) ==
    IF options = <<>> THEN {None}
    ELSE { Some(options[i]) : i \in 1..Len(options) }

\* The suggestions the rendered conversation offers as buttons.
RenderedSuggestions(msgs) ==
    { msgs[i].content[k].suggestions[j] :
        <<i, k, j>> \in
          { x \in (1..Len(msgs)) \X (1..3) \X (1..2) :
              /\ x[2] <= Len(msgs[x[1]].content)
              /\ msgs[x[1]].content[x[2]].type = "suggestions"
              /\ x[3] <= Len(msgs[x[1]].content[x[2]].suggestions) } }

\* Texts typed into st.chat_input, which submits no empty text.
ChatPrompts == { <<"Show me the payments of this claim.">> }

Event(kind, prompt) ==
    [kind |-> kind, prompt |-> prompt, prior_len |-> Len(messages),
     prior_claim |-> selected_claim]

\* The record of which claim st.session_state.selected_claim held when each
\* entry was appended: the entries kept, then claim for the entries of this
\* pass.
Stamp(kept, len, claim) ==
    [i \in 1..len |-> IF i <= Len(kept) THEN kept[i] ELSE claim]

\* One run of the script from the top, started with the transcript msgs and
\* with claim in st.session_state.selected_claim: step 3, and, unless it
\* raised, the rendering, in which the widget that started the pass (if one
\* did: submits) hands prompt to process_user_input.
ScriptRun(msgs, claim, resp, submits, prompt) ==
    LET s == Step3(msgs, resp) IN
    /\ analyst_call' = s.call
    /\ appended_under' =
          Stamp(SubSeq(appended_under, 1, Len(msgs)),
                Len(IF s.raised \/ ~submits THEN s.messages
                    ELSE process_user_input(s.messages, prompt).messages),
                claim)
    /\ IF s.raised
       THEN /\ messages' = s.messages
            /\ ui' = "exception"
            /\ rerun_pending' = FALSE
       ELSE LET p == IF submits THEN process_user_input(s.messages, prompt)
                     ELSE [messages |-> s.messages, rerun |-> FALSE]
            IN /\ messages' = p.messages
               /\ ui' = "rendered"
               /\ rerun_pending' = p.rerun

\* The widgets of the chat are there to click: the last pass rendered them
\* and asked for no rerun.
Interactive == ui = "rendered" /\ ~rerun_pending
ChatShown == Interactive /\ selected_claim # <<>>
Room == Len(messages) + 2 <= MaxTranscript

\* The script runs with no widget event: the rerun st.rerun() asked for, or
\* one the user asks for.
Rerun ==
    /\ \E resp \in Answers(messages) : ScriptRun(messages, selected_claim, resp, FALSE, None)
    /\ event' = Event("rerun", None)
    /\ UNCHANGED <<selected_claim, dataVars, imageVars>>

\* Free text in the chat input.
ChatInput ==
    /\ ChatShown /\ Room
    /\ \E prompt \in ChatPrompts, resp \in Answers(messages) :
         /\ ScriptRun(messages, selected_claim, resp, TRUE, Some(prompt))
         /\ event' = Event("chat", Some(prompt))
    /\ UNCHANGED <<selected_claim, dataVars, imageVars>>

\* A click on a suggestion button of display_message.
SuggestionClick ==
    /\ ChatShown /\ Room
    /\ \E suggestion \in RenderedSuggestions(messages), resp \in Answers(messages) :
         /\ ScriptRun(messages, selected_claim, resp, TRUE, Some(suggestion))
         /\ event' = Event("suggestion", Some(suggestion))
    /\ UNCHANGED <<selected_claim, dataVars, imageVars>>

\* A click on "Ask Predefined Question".
PredefinedClick ==
    /\ ChatShown /\ Room
    /\ \E options \in QuestionLists[selected_claim], resp \in Answers(messages) :
         \E text \in SelectedQuestionTexts(options) :
            /\ ScriptRun(messages, selected_claim, resp, TRUE, text)
            /\ event' = Event("predefined", text)
    /\ UNCHANGED <<selected_claim, dataVars, imageVars>>

\* The claim selectbox changes value: on_claim_change runs, then the script.
ClaimChange ==
    /\ Interactive
    /\ \E new \in {<<>>} \cup ClaimNoUniverse :
         /\ new # selected_claim
         /\ selected_claim' = new
         /\ \E resp \in Answers(on_claim_change(messages)) :
              ScriptRun(on_claim_change(messages), new, resp, FALSE, None)
    /\ event' = Event("claim_change", None)
    /\ UNCHANGED <<dataVars, imageVars>>

InitChat ==
    /\ messages = <<>>
    /\ selected_claim = <<>>
    /\ ui = "rendered"
    /\ rerun_pending = FALSE
    /\ analyst_call = NoCall
    /\ appended_under = <<>>
    /\ event = [kind |-> "start", prompt |-> None, prior_len |-> 0,
                prior_claim |-> <<>>]

NoDetailCall ==
    [called |-> FALSE, claim_number |-> <<>>, from_cache |-> FALSE,
     failed |-> "none", found |-> FALSE,
     result |-> [claim_details |-> ErrorFetching, audit_questions |-> <<>>,
                 loss_description |-> None]]

\* Nothing of the warehouse reads has run.
IdleData ==
    /\ claims_table = {}
    /\ cache_numbers = None
    /\ cache_details = [c \in ClaimNoUniverse |-> None]
    /\ listed = <<>>
    /\ detail_call = NoDetailCall

NoImagePass ==
    [shown |-> "nothing", image_summary |-> <<>>, claim_description |-> None,
     service |-> [kind |-> "none", value |-> 0], similarity_score |-> None]

InitImage == image_tab = NoImagePass

Init == InitChat /\ IdleData /\ InitImage

Next ==
    \/ Rerun
    \/ ChatInput
    \/ SuggestionClick
    \/ PredefinedClick
    \/ ClaimChange

Spec == Init /\ [][Next]_vars

----------------------------------------------------------------------------
(* The script over a listing that changes between passes *)

\* The five passes above are those in which claim_numbers holds the value of
\* the claim selectbox.  The list is read again in every pass (line 342),
\* from a cache entry of one hour, so a later pass can be handed another.

\* What get_claim_numbers() can return to the script, over every warehouse
\* content and read outcome; cached results are among them.
ClaimNumberLists ==
    { get_claim_numbers(read) : read \in UNION { ListingReads(t) : t \in Tables } }

\* options=[""] + claim_numbers.
SelectboxOptions(claim_numbers) == << <<>> >> \o claim_numbers

\* The value st.selectbox(key="selected_claim") leaves in session state: the
\* value it holds if that is one of the options, else the first option.  The
\* widget calls on_change only for a choice the user made.
SelectboxValue(value, options) ==
    IF \E i \in 1..Len(options) : options[i] = value THEN value ELSE options[1]

\* A pass whose claim_numbers no longer holds the selected claim (its row is
\* gone, or the listing read failed): step 3 runs with the selection as it
\* was; the selectbox then falls back to the blank option without a call of
\* on_claim_change, and the chat is not rendered, so that a chat widget that
\* started the pass submits nothing.  (A pass in which step 3 raises never
\* gets to the selectbox: it is Rerun.)
SelectboxFallback ==
    /\ selected_claim # <<>>
    /\ \E value \in { SelectboxValue(selected_claim, SelectboxOptions(l)) :
                        l \in ClaimNumberLists },
          resp \in Answers(messages) :
         /\ value # selected_claim
         /\ ~Step3(messages, resp).raised
         /\ ScriptRun(messages, selected_claim, resp, FALSE, None)
         /\ selected_claim' = value
    /\ event' = Event("selectbox_fallback", None)
    /\ UNCHANGED <<dataVars, imageVars>>

NextSession ==
    \/ Rerun
    \/ ChatInput
    \/ SuggestionClick
    \/ PredefinedClick
    \/ ClaimChange
    \/ SelectboxFallback

SpecSession == Init /\ [][NextSession]_vars

----------------------------------------------------------------------------
(* Properties of the chat *)

Submissions == {"chat", "suggestion", "predefined"}
UserMessage(text) == Message("user", << TextBlock(text) >>)

\* str.lower() of a chunk, and "error" in text.lower() chunk by chunk.
Lower(chunk) ==
    CASE chunk = "Error" -> "error" [] chunk = "API " -> "api " [] OTHER -> chunk
ContainsError(text) == \E i \in 1..Len(text) : Lower(text[i]) = "error"

\* The adapter call failed: the request raised (the timeout among the
\* causes), the body was no JSON, or the status is an error status.
AdapterFailed(resp) ==
    \/ resp.kind = "raises"
    \/ resp.kind = "returns" /\ (resp.status >= 400 \/ resp.content.j = "invalid")

\* C1: a pass that starts with a user message last appends exactly one
\* analyst message directly after it, for every outcome of the analyst call.
C1_AwaitingPassAppendsOneAnalystMessage ==
    [][ Awaiting(messages) =>
          /\ Len(messages') = Len(messages) + 1
          /\ IsPrefix(messages, messages')
          /\ Last(messages').role = "analyst" ]_vars

C3_FailureAppendsSingleErrorText ==
    (analyst_call.called /\ AdapterFailed(analyst_call.resp)) =>
        /\ Len(messages) = Len(analyst_call.request.messages) + 1
        /\ IsPrefix(analyst_call.request.messages, messages)
        /\ Last(messages).role = "analyst"
        /\ Len(Last(messages).content) = 1
        /\ Last(messages).content[1].type = "text"
        /\ ContainsError(Last(messages).content[1].text)
        /\ ~Awaiting(messages)
        /\ ~rerun_pending

C3_Witness ==
    /\ analyst_call.called
    /\ analyst_call.resp.kind = "returns"
    /\ analyst_call.resp.status = 504
    /\ analyst_call.resp.content.message = "object_with_content"
    /\ Len(analyst_call.resp.content.content) = 3
    /\ Len(messages) = 2

\* C4: every analyst message of the transcript has a content sequence that
\* is not empty.
C4_AnalystContentNonEmpty ==
    \A i \in 1..Len(messages) :
        messages[i].role = "analyst" => messages[i].content # <<>>

\* C5 as claimed: the adapter gives no error message only for a 2xx status.
C5_SuccessOnlyFor2xx ==
    (analyst_call.called /\ analyst_call.result.error_msg = None) =>
        /\ analyst_call.resp.kind = "returns"
        /\ analyst_call.resp.status >= 200
        /\ analyst_call.resp.status < 300

\* C5: the adapter gives an error message when the request raised, when the
\* body is no JSON and for every status of 400 and more; it gives none only
\* for a status below 400.
C5_ErrorFrom400 ==
    analyst_call.called =>
        /\ AdapterFailed(analyst_call.resp)
             => OptStrTruthy(analyst_call.result.error_msg)
        /\ analyst_call.result.error_msg = None
             => /\ analyst_call.resp.kind = "returns"
                /\ analyst_call.resp.status < 400
                /\ analyst_call.result.response = analyst_call.resp.content

C5_Witness ==
    /\ analyst_call.called
    /\ analyst_call.resp.kind = "returns"
    /\ analyst_call.resp.status = 399
    /\ analyst_call.result.error_msg = None

\* C6: while the claim selection stays, every step leaves the entries of the
\* transcript as they were and in place, and an analyst pass sends the
\* adapter the transcript as it stood.
C6_TranscriptAppendOnly ==
    [][ selected_claim' = selected_claim =>
          /\ IsPrefix(messages, messages')
          /\ analyst_call'.called =>
                analyst_call'.request.messages = messages ]_vars

C6_Witness ==
    /\ analyst_call.called
    /\ Len(analyst_call.request.messages) = 3
    /\ Len(messages) = 4
    /\ IsPrefix(analyst_call.request.messages, messages)

\* C7 as claimed: every submission appends one user message and leaves the
\* machine awaiting the analyst reply.
C7_EverySubmissionAppends ==
    [][ event'.kind \in Submissions =>
          /\ Len(messages') = Len(messages) + 1
          /\ IsPrefix(messages, messages')
          /\ Awaiting(messages') ]_vars

\* C7: from Idle, a submission of a text that is not empty appends one user
\* message carrying it and leaves the machine awaiting the analyst reply; a
\* submission of nothing (the predefined-question button of a claim without
\* audit questions) or of the empty text changes nothing.
C7_SubmissionOfTextAppends ==
    [][ (event'.kind \in Submissions /\ ~Awaiting(messages)) =>
          IF OptStrTruthy(event'.prompt)
          THEN /\ messages' = Append(messages, UserMessage(event'.prompt[1]))
               /\ Awaiting(messages')
               /\ rerun_pending'
          ELSE /\ messages' = messages
               /\ ~rerun_pending' ]_vars

C7_Witness ==
    /\ event.kind = "predefined"
    /\ OptStrTruthy(event.prompt)
    /\ Len(messages) = event.prior_len + 1
    /\ Last(messages) = UserMessage(event.prompt[1])
    /\ rerun_pending

\* C11: in every reachable state each entry of the transcript was appended
\* while the claim now selected was the selected one, and the transcript is
\* empty whenever no claim is selected.
C11_TranscriptOfSelectedClaim ==
    /\ Len(appended_under) = Len(messages)
    /\ \A i \in 1..Len(appended_under) : appended_under[i] = selected_claim
    /\ selected_claim = <<>> => messages = <<>>

----------------------------------------------------------------------------
(* The cached warehouse reads, over a warehouse that changes *)

\* Another session of the warehouse inserts or deletes a claim row.
InsertRow ==
    /\ Cardinality(claims_table) < MaxRows
    /\ \E r \in Rows \ claims_table : claims_table' = claims_table \cup {r}
    /\ UNCHANGED <<cache_numbers, cache_details, listed, detail_call>>
    /\ UNCHANGED <<chatVars, imageVars>>

DeleteRow ==
    /\ \E r \in claims_table : claims_table' = claims_table \ {r}
    /\ UNCHANGED <<cache_numbers, cache_details, listed, detail_call>>
    /\ UNCHANGED <<chatVars, imageVars>>

\* @st.cache_data(ttl=3600) get_claim_numbers(): the stored list while the
\* entry lives; else the function runs and what it returns is stored, the []
\* of a failed read too.
CallGetClaimNumbers ==
    /\ IF cache_numbers # None
       THEN /\ listed' = cache_numbers[1]
            /\ UNCHANGED cache_numbers
       ELSE \E read \in ListingReads(claims_table) :
              /\ listed' = get_claim_numbers(read)
              /\ cache_numbers' = Some(get_claim_numbers(read))
    /\ UNCHANGED <<claims_table, cache_details, detail_call>>
    /\ UNCHANGED <<chatVars, imageVars>>

\* What one uncached get_claim_details call did, for the record of the call:
\* which read raised (the notes are read only after a claim row was found).
FailedRead(claims_read, notes_read) ==
    IF claims_read.raised THEN "claims"
    ELSE IF claims_read.rows # <<>> /\ notes_read.raised THEN "notes"
    ELSE "none"

\* @st.cache_data(ttl=3600) get_claim_details(claim_number), called as the
\* script calls it: for a number of the list the selectbox was given.
CallGetClaimDetails ==
    /\ \E i \in 1..Len(listed) :
         LET claim_number == listed[i] IN
         IF cache_details[claim_number] # None
         THEN /\ detail_call' = [called |-> TRUE, claim_number |-> claim_number,
                                 from_cache |-> TRUE, failed |-> "none",
                                 found |-> FALSE,
                                 result |-> cache_details[claim_number][1]]
              /\ UNCHANGED cache_details
         ELSE \E notes \in SUBSET ClaimNoUniverse :
              \E cr \in ClaimsReads(claims_table, claim_number),
                 nr \in NotesReads(notes, claim_number) :
                /\ detail_call' =
                     [called |-> TRUE, claim_number |-> claim_number,
                      from_cache |-> FALSE, failed |-> FailedRead(cr, nr),
                      found |-> ~cr.raised /\ cr.rows # <<>>,
                      result |-> get_claim_details(claim_number, cr, nr)]
                /\ cache_details' =
                     [cache_details EXCEPT ![claim_number] =
                        Some(get_claim_details(claim_number, cr, nr))]
    /\ UNCHANGED <<claims_table, cache_numbers, listed>>
    /\ UNCHANGED <<chatVars, imageVars>>

\* An hour after an entry was stored, it is dropped.
ExpireNumbers ==
    /\ cache_numbers # None
    /\ cache_numbers' = None
    /\ UNCHANGED <<claims_table, cache_details, listed, detail_call>>
    /\ UNCHANGED <<chatVars, imageVars>>

ExpireDetails ==
    /\ \E c \in ClaimNoUniverse :
         /\ cache_details[c] # None
         /\ cache_details' = [cache_details EXCEPT ![c] = None]
    /\ UNCHANGED <<claims_table, cache_numbers, listed, detail_call>>
    /\ UNCHANGED <<chatVars, imageVars>>

InitData ==
    /\ InitChat /\ InitImage
    /\ claims_table \in Tables
    /\ cache_numbers = None
    /\ cache_details = [c \in ClaimNoUniverse |-> None]
    /\ listed = <<>>
    /\ detail_call = NoDetailCall

NextData ==
    \/ InsertRow
    \/ DeleteRow
    \/ CallGetClaimNumbers
    \/ CallGetClaimDetails
    \/ ExpireNumbers
    \/ ExpireDetails

SpecData == InitData /\ [][NextData]_vars

----------------------------------------------------------------------------
(* The image tab *)

\* One run of a Cortex query returning one cell: the query raises, returns
\* no row, a NULL cell, or a value.
SummaryResults ==
    { [kind |-> "raises", value |-> <<>>], [kind |-> "no_row", value |-> <<>>],
      [kind |-> "value", value |-> <<>>],
      [kind |-> "value", value |-> <<"A flooded basement.">>] }

\* AI_SIMILARITY answers with a score value / ScoreScale of [0.0, 1.0].
SimilarityResults ==
    { [kind |-> k, value |-> 0] : k \in {"raises", "no_row", "null"} }
    \cup { [kind |-> "value", value |-> v] : v \in 0..ScoreScale }

\* get_image_summary: the cell when it is true, else a fixed text.
get_image_summary(result) ==
    IF result.kind = "raises" THEN <<"An error occurred during summary generation.">>
    ELSE IF result.kind = "value" /\ StrTruthy(result.value) THEN result.value
    ELSE <<"No summary could be generated.">>

\* Line 229: not result_df.empty and result_df.iloc[0, 0].
ScoreCellTrue(result) == result.kind = "value" /\ result.value # 0

\* get_similarity_score: the cell when the test of line 229 passes, else None.
get_similarity_score(text1, text2, result) ==
    IF result.kind = "raises" THEN None
    ELSE IF ScoreCellTrue(result) THEN Some(result.value)
    ELSE None

\* A click on "Generate Image Summary & Similarity", with an image and a
\* claim selected: the summary, the loss description of the claim details,
\* and, when both are true, the similarity score, shown when it is not None.
GenerateSummaryAndSimilarity ==
    /\ selected_claim # <<>>
    /\ \E sr \in SummaryResults, details \in DetailsResults[selected_claim] :
         LET image_summary == get_image_summary(sr)
             claim_description == details.loss_description
         IN
         IF OptStrTruthy(claim_description) /\ StrTruthy(image_summary)
         THEN \E sim \in SimilarityResults :
              LET similarity_score ==
                    get_similarity_score(claim_description[1], image_summary, sim)
              IN image_tab' =
                   [shown |-> IF similarity_score # None THEN "metric" ELSE "no_metric",
                    image_summary |-> image_summary,
                    claim_description |-> claim_description,
                    service |-> sim,
                    similarity_score |-> similarity_score]
         ELSE image_tab' =
                   [shown |-> "info",
                    image_summary |-> image_summary,
                    claim_description |-> claim_description,
                    service |-> [kind |-> "none", value |-> 0],
                    similarity_score |-> None]
    /\ UNCHANGED <<chatVars, dataVars>>

InitImageTab == InitChat /\ IdleData /\ InitImage

NextImage ==
    \/ ClaimChange
    \/ GenerateSummaryAndSimilarity

SpecImage == InitImageTab /\ [][NextImage]_vars

----------------------------------------------------------------------------
(* Properties of the data access *)

FailureRecord ==
    [claim_details |-> ErrorFetching, audit_questions |-> <<>>,
     loss_description |-> None]

\* C8: get_claim_details returns the failure record, with nothing of the
\* warehouse in it, when either of its reads failed, and the "not found"
\* record when no claim row matched.
C8_FailedReadGivesFailureRecord ==
    (detail_call.called /\ ~detail_call.from_cache) =>
        /\ detail_call.failed # "none" => detail_call.result = FailureRecord
        /\ (detail_call.failed = "none" /\ ~detail_call.found) =>
              detail_call.result =
                 [FailureRecord EXCEPT !.claim_details = NoMainClaim]

\* C9: get_claim_details for a number get_claim_numbers returned gives a
\* record that shows that claim number, cached or not, whatever happened to
\* the warehouse in between.
C9_DetailsShowListedNumber ==
    detail_call.called =>
        RecordClaimNo(detail_call.result) = Some(detail_call.claim_number)

\* C10: the similarity result is present and within [0.0, 1.0] when both
\* inputs are non-empty, for every score of that range the service returns,
\* and absent when an input is empty or undefined.
C10_SimilarityPresentInRange ==
    image_tab.shown # "nothing" =>
        /\ ( /\ OptStrTruthy(image_tab.claim_description)
             /\ StrTruthy(image_tab.image_summary)
             /\ image_tab.service.kind = "value" )
           => /\ image_tab.similarity_score = Some(image_tab.service.value)
              /\ image_tab.service.value >= 0
              /\ image_tab.service.value <= ScoreScale
        /\ ~( /\ OptStrTruthy(image_tab.claim_description)
              /\ StrTruthy(image_tab.image_summary) )
           => image_tab.similarity_score = None

====
